---- MODULE Spec2Model ----
(***************************************************************************)
(* Model of src/src/lib.rs: two pure routines computing floor(log10(x)).   *)
(*                                                                         *)
(*   log10_floor(x: u16) -> u8    guess from floor(log2(x)), one compare   *)
(*   log10_u32(x: u32)   -> u32   packed table, one add and one shift      *)
(*                                                                         *)
(* TLC integers are 32-bit signed, so a u16/u8/small index is an integer   *)
(* and a u32, u64 or usize is a little-endian sequence of 16-bit limbs     *)
(* (u32: <<lo, hi>>, u64/usize: <<l0, l1, l2, l3>>).  A hex literal of the  *)
(* source such as 0x0004_FFFE_7960 is the limb sequence                    *)
(* <<\H7960, \HFFFE, \H0004, 0>>.                                          *)
(***************************************************************************)
EXTENDS Integers, Sequences, FiniteSets, TLC

\* u16::MAX, the last entry of LIMITS and the largest argument of log10_floor.
U16_MAX == 65535

\* One more than the largest 16-bit limb.
LimbBase == U16_MAX + 1

\* ---- bounds of the model ----
\* log10_u32 is called on every x <= u16::MAX, on both ends of every block of
\* 2^16 values, and on every x within Window of a power of two or of ten.
Window == 300
\* A second call of log10_floor takes an argument in x .. x + Stride (or an anchor).
Stride == 2
\* Number of calls one run makes.
MaxCalls == 2

VARIABLES
    overflow_checks,  \* build profile: TRUE = debug (overflow checks on), FALSE = release
    calls,            \* number of calls made so far
    fn,               \* the routine called last: "none", "log10_floor", "log10_u32"
    pc,               \* "idle", "returned", "panicked" or "undefined"
    x,                \* the argument of the last call (u16: integer, u32: <<lo, hi>>)
    locals,           \* the local variables of the last call
    ret               \* the value the last call returned (<<>> when it did not return)

vars == <<overflow_checks, calls, fn, pc, x, locals, ret>>

\* ---------------------------------------------------------------- tables

\* Variants of LOG10S_FOR_LOG2S with one entry mistyped: entry 3 one too high,
\* entry 13 one too low, entry 12 one too high.
LOG10S_FOR_LOG2S_early3 ==
    <<0, 0, 0, 1, 1, 1, 1, 2, 2, 2, 3, 3, 3, 3, 4, 4>>

LOG10S_FOR_LOG2S_short13 ==
    <<0, 0, 0, 0, 1, 1, 1, 2, 2, 2, 3, 3, 3, 2, 4, 4>>

LOG10S_FOR_LOG2S_high12 ==
    <<0, 0, 0, 0, 1, 1, 1, 2, 2, 2, 3, 3, 4, 3, 4, 4>>

\* const LOG10S_FOR_LOG2S: [u8; 16], indexed (from 0) by floor(log2(x)).
LOG10S_FOR_LOG2S ==
    <<0, 0, 0, 0, 1, 1, 1, 2, 2, 2, 3, 3, 3, 3, 4, 4>>

\* Variants of LIMITS: 100 written for 99, and the saturated top entry left out.
LIMITS_off_by_one == <<9, 100, 999, 9999, U16_MAX>>

LIMITS_no_top == <<9, 99, 999, 9999>>

\* const LIMITS: [u16; 5], indexed (from 0) by the guess.
LIMITS == <<9, 99, 999, 9999, U16_MAX>>

\* ---------------------------------------------------------------- u16 part

\* The values of a u16.
U16 == 0 .. U16_MAX

\* Position of the highest set bit of n >= 1 (what u16::log2 returns for n >= 1).
RECURSIVE HighBit(_)
HighBit(n) == IF n < 2 THEN 0 ELSE 1 + HighBit(n \div 2)

\* x.log2() of the int_log feature (line 1), a method of the core library.
\* For x >= 1 it is the position of the highest set bit.  For x = 0 the
\* library of the toolchains that offer `log2` under int_log evaluates
\* `let _ = Self::MAX + 1; 0` ("it panics in debug mode and the return value
\* is 0 in release mode"): a panic where overflow checks are compiled in, the
\* value 0 where they are not.
u16_log2(a, oc) ==
    IF a > 0 THEN [panic |-> FALSE, value |-> HighBit(a)]
    ELSE IF oc THEN [panic |-> TRUE, value |-> 0]
    ELSE [panic |-> FALSE, value |-> 0]

\* Whether slice.get_unchecked(i) on tbl is undefined behaviour.
out_of_range(tbl, i) == i >= Len(tbl)

\* slice.get_unchecked(i) for an index in range (indices count from 0).
get_unchecked(tbl, i) == tbl[i + 1]

\* Variant of correct that compares with >= instead of >.
correct_ge(a, guess, lim, oc) ==
    IF a >= lim
    THEN IF guess + 1 > 255
         THEN IF oc THEN [panic |-> TRUE, value |-> 0]
                    ELSE [panic |-> FALSE, value |-> 0]
         ELSE [panic |-> FALSE, value |-> guess + 1]
    ELSE [panic |-> FALSE, value |-> guess]

\* if x > limit { log10x_guess + 1 } else { log10x_guess }, in u8 arithmetic.
correct(a, guess, lim, oc) ==
    IF a > lim
    THEN IF guess + 1 > 255
         THEN IF oc THEN [panic |-> TRUE, value |-> 0]
                    ELSE [panic |-> FALSE, value |-> 0]
         ELSE [panic |-> FALSE, value |-> guess + 1]
    ELSE [panic |-> FALSE, value |-> guess]

\* pub fn log10_floor(x: u16) -> u8: the set of outcomes of a call with argument a
\* in a build with overflow checks oc.  An out-of-range get_unchecked is
\* undefined behaviour: the outcome "undefined" stands for whatever the build
\* then does (any value, a crash, anything else).
log10_floor(a, oc) ==
    LET l2 == u16_log2(a, oc)
    IN  IF l2.panic
        THEN {[pc |-> "panicked", locals |-> [at |-> "log2"], ret |-> <<>>]}
        ELSE IF out_of_range(LOG10S_FOR_LOG2S, l2.value)
        THEN {[pc |-> "undefined",
               locals |-> [at |-> "guess", log2x |-> l2.value], ret |-> <<>>]}
        ELSE LET guess == get_unchecked(LOG10S_FOR_LOG2S, l2.value)
             IN  IF out_of_range(LIMITS, guess)
                 THEN {[pc |-> "undefined",
                        locals |-> [at |-> "limit", log2x |-> l2.value,
                                    log10x_guess |-> guess],
                        ret |-> <<>>]}
                 ELSE LET lim == get_unchecked(LIMITS, guess)
                          r   == correct(a, guess, lim, oc)
                          loc == [at |-> "end", log2x |-> l2.value,
                                  log10x_guess |-> guess, limit |-> lim]
                      IN  IF r.panic
                          THEN {[pc |-> "panicked", locals |-> loc, ret |-> <<>>]}
                          ELSE {[pc |-> "returned", locals |-> loc, ret |-> r.value]}

\* ---------------------------------------------------------------- u32 part

\* Variant of TABLE with entry 16 one too large (0x0004_FFFE_7961).
TABLE_entry16_off_by_one ==
    << <<0, 0, 0, 0>>,           <<0, 0, 0, 0>>,           <<0, 0, 0, 0>>,
       <<\HFFF6, \HFFFF, 0, 0>>, <<0, 0, 1, 0>>,           <<0, 0, 1, 0>>,
       <<\HFF9C, \HFFFF, 1, 0>>, <<0, 0, 2, 0>>,           <<0, 0, 2, 0>>,
       <<\HFC18, \HFFFF, 2, 0>>, <<0, 0, 3, 0>>,           <<0, 0, 3, 0>>,
       <<0, 0, 3, 0>>,           <<\HD8F0, \HFFFF, 3, 0>>, <<0, 0, 4, 0>>,
       <<0, 0, 4, 0>>,           <<\H7961, \HFFFE, 4, 0>>, <<0, 0, 5, 0>>,
       <<0, 0, 5, 0>>,           <<\HBDC0, \HFFF0, 5, 0>>, <<0, 0, 6, 0>>,
       <<0, 0, 6, 0>>,           <<0, 0, 6, 0>>,           <<\H6980, \HFF67, 6, 0>>,
       <<0, 0, 7, 0>>,           <<0, 0, 7, 0>>,           <<\H1F00, \HFA0A, 7, 0>>,
       <<0, 0, 8, 0>>,           <<0, 0, 8, 0>>,           <<\H3600, \HC465, 8, 0>>,
       <<0, 0, 9, 0>>,           <<0, 0, 9, 0>> >>

\* const TABLE: &[u64] of log10_u32, 32 entries indexed (from 0) by
\* 31 - leading_zeros(x); each entry in limbs <<l0, l1, l2, l3>>.
TABLE ==
    << <<0, 0, 0, 0>>,           <<0, 0, 0, 0>>,           <<0, 0, 0, 0>>,
       <<\HFFF6, \HFFFF, 0, 0>>, <<0, 0, 1, 0>>,           <<0, 0, 1, 0>>,
       <<\HFF9C, \HFFFF, 1, 0>>, <<0, 0, 2, 0>>,           <<0, 0, 2, 0>>,
       <<\HFC18, \HFFFF, 2, 0>>, <<0, 0, 3, 0>>,           <<0, 0, 3, 0>>,
       <<0, 0, 3, 0>>,           <<\HD8F0, \HFFFF, 3, 0>>, <<0, 0, 4, 0>>,
       <<0, 0, 4, 0>>,           <<\H7960, \HFFFE, 4, 0>>, <<0, 0, 5, 0>>,
       <<0, 0, 5, 0>>,           <<\HBDC0, \HFFF0, 5, 0>>, <<0, 0, 6, 0>>,
       <<0, 0, 6, 0>>,           <<0, 0, 6, 0>>,           <<\H6980, \HFF67, 6, 0>>,
       <<0, 0, 7, 0>>,           <<0, 0, 7, 0>>,           <<\H1F00, \HFA0A, 7, 0>>,
       <<0, 0, 8, 0>>,           <<0, 0, 8, 0>>,           <<\H3600, \HC465, 8, 0>>,
       <<0, 0, 9, 0>>,           <<0, 0, 9, 0>> >>

\* Variant of leading_zeros that counts the leading zeros of x | 1.
leading_zeros_of_x_or_1(w) ==
    IF w[2] > 0 THEN 15 - HighBit(w[2])
    ELSE IF w[1] > 0 THEN 31 - HighBit(w[1])
    ELSE 31

\* u32::leading_zeros of <<lo, hi>>.
leading_zeros(w) ==
    IF w[2] > 0 THEN 15 - HighBit(w[2])
    ELSE IF w[1] > 0 THEN 31 - HighBit(w[1])
    ELSE 32

\* a - b in usize (64-bit) arithmetic for small a, b (0 .. LimbBase): the
\* difference in limbs, a panic on underflow where overflow checks are
\* compiled in, the wrapped value 2^64 - (b - a) where they are not.
usize_sub(a, b, oc) ==
    IF a >= b THEN [panic |-> FALSE, value |-> <<a - b, 0, 0, 0>>]
    ELSE IF oc THEN [panic |-> TRUE, value |-> <<0, 0, 0, 0>>]
    ELSE [panic |-> FALSE,
          value |-> <<LimbBase - (b - a), U16_MAX, U16_MAX, U16_MAX>>]

\* The bounds check of TABLE[i] for a usize i in limbs.
index_in_bounds(tbl, i) ==
    i[4] = 0 /\ i[3] = 0 /\ i[2] = 0 /\ i[1] < Len(tbl)

\* x as u64: zero extension of <<lo, hi>>.
u32_as_u64(w) == <<w[1], w[2], 0, 0>>

\* a + b in u64 arithmetic on limbs, with the carry out of the top limb.
u64_add(a, b) ==
    LET s1 == a[1] + b[1]
        s2 == a[2] + b[2] + (s1 \div LimbBase)
        s3 == a[3] + b[3] + (s2 \div LimbBase)
        s4 == a[4] + b[4] + (s3 \div LimbBase)
    IN  [value |-> <<s1 % LimbBase, s2 % LimbBase, s3 % LimbBase, s4 % LimbBase>>,
         carry |-> s4 \div LimbBase]

\* Variant of shift_right_32 that shifts by 16.
shift_right_16(v) == <<v[2], v[3], v[4], 0>>

\* v >> 32 on a u64 in limbs.
shift_right_32(v) == <<v[3], v[4], 0, 0>>

\* v as u32: truncation of a u64 to its low two limbs.
u64_as_u32(v) == <<v[1], v[2]>>

\* pub const fn log10_u32(x: u32) -> u32: the set of outcomes of a call with
\* argument w = <<lo, hi>> in a build with overflow checks oc.
log10_u32(w, oc) ==
    LET lz == leading_zeros(w)
        i  == usize_sub(31, lz, oc)
    IN  IF i.panic
        THEN {[pc |-> "panicked", locals |-> [at |-> "subtract", lz |-> lz], ret |-> <<>>]}
        ELSE IF ~index_in_bounds(TABLE, i.value)
        THEN {[pc |-> "panicked",
               locals |-> [at |-> "index", lz |-> lz, index |-> i.value], ret |-> <<>>]}
        ELSE LET entry == TABLE[i.value[1] + 1]
                 sum   == u64_add(u32_as_u64(w), entry)
             IN  IF sum.carry > 0 /\ oc
                 THEN {[pc |-> "panicked",
                        locals |-> [at |-> "add", lz |-> lz, index |-> i.value],
                        ret |-> <<>>]}
                 ELSE {[pc |-> "returned",
                        locals |-> [at |-> "end", lz |-> lz, index |-> i.value,
                                    entry |-> entry, sum |-> sum.value],
                        ret |-> u64_as_u32(shift_right_32(sum.value))]}

\* ---------------------------------------------------------------- reference

\* Number of decimal digits of n >= 0 by repeated division by ten.
RECURSIVE Digits(_)
Digits(n) == IF n < 10 THEN 1 ELSE 1 + Digits(n \div 10)

\* floor(log10(n)) for n >= 1.
FloorLog10(n) == Digits(n) - 1

\* <<lo, hi>> divided by ten (long division on limbs).
DivTenW(w) ==
    <<((w[2] % 10) * LimbBase + w[1]) \div 10, w[2] \div 10>>

\* Number of decimal digits of a u32 <<lo, hi>>.
RECURSIVE DigitsW(_)
DigitsW(w) ==
    IF w[2] = 0 /\ w[1] < 10 THEN 1 ELSE 1 + DigitsW(DivTenW(w))

\* floor(log10(w)) for a u32 w >= 1.
FloorLog10W(w) == DigitsW(w) - 1

\* 2^k and 10^k as integers (k small enough to fit), and as u32 limbs.
RECURSIVE Pow(_, _)
Pow(b, k) == IF k = 0 THEN 1 ELSE b * Pow(b, k - 1)

Pow2W(k) == IF k < 16 THEN <<Pow(2, k), 0>> ELSE <<0, Pow(2, k - 16)>>

TimesTenW(w) ==
    <<(w[1] * 10) % LimbBase, w[2] * 10 + ((w[1] * 10) \div LimbBase)>>

RECURSIVE Pow10W(_)
Pow10W(k) == IF k = 0 THEN <<1, 0>> ELSE TimesTenW(Pow10W(k - 1))

\* ---------------------------------------------------------------- inputs

\* w + d for a small offset d (|d| < LimbBase), one borrow or carry.
OffsetW(w, d) ==
    LET lo == w[1] + d
    IN  IF lo < 0 THEN <<lo + LimbBase, w[2] - 1>>
        ELSE IF lo >= LimbBase THEN <<lo - LimbBase, w[2] + 1>>
        ELSE <<lo, w[2]>>

IsU32(w) == w[1] \in U16 /\ w[2] \in U16

\* The ends of every bit-length range, 2^k (k = 32 standing for one past
\* u32::MAX), and the decade boundaries 10^k.
WideAnchors ==
    {Pow2W(k) : k \in 0 .. 31} \cup {<<0, LimbBase>>} \cup {Pow10W(k) : k \in 1 .. 9}

\* Arguments of special interest to a second call of log10_floor.
Anchors16 == {Pow(10, k) : k \in 0 .. 4} \cup {U16_MAX}

\* Arguments of the next call of log10_floor: any u16 for the first call, an
\* argument no smaller than the last one afterwards.
Args16 ==
    IF calls = 0 THEN U16
    ELSE IF fn = "log10_floor" /\ pc = "returned"
    THEN {a \in (x .. x + Stride) \cup Anchors16 : a >= x /\ a <= U16_MAX}
    ELSE {}

\* ---------------------------------------------------------------- state machine

Init ==
    /\ overflow_checks \in BOOLEAN
    /\ calls = 0
    /\ fn = "none"
    /\ pc = "idle"
    /\ x = 0
    /\ locals = <<>>
    /\ ret = <<>>

\* A call of log10_floor(a).
CallLog10Floor ==
    /\ calls < MaxCalls
    /\ \E a \in Args16 :
         \E r \in log10_floor(a, overflow_checks) :
            /\ fn' = "log10_floor"
            /\ x' = a
            /\ pc' = r.pc
            /\ locals' = r.locals
            /\ ret' = r.ret
    /\ calls' = calls + 1
    /\ UNCHANGED overflow_checks

\* A first call of log10_u32(w).
CallWide(w) ==
    /\ \E r \in log10_u32(w, overflow_checks) :
            /\ fn' = "log10_u32"
            /\ x' = w
            /\ pc' = r.pc
            /\ locals' = r.locals
            /\ ret' = r.ret
    /\ calls' = calls + 1
    /\ UNCHANGED overflow_checks

\* log10_u32 called on every x <= u16::MAX (the overlap with log10_floor).
CallLog10U32Low ==
    /\ calls = 0
    /\ \E n \in U16 : CallWide(<<n, 0>>)

\* log10_u32 called on both ends of every block of 2^16 values.
CallLog10U32Block ==
    /\ calls = 0
    /\ \E hi \in U16 : \E lo \in {0, U16_MAX} : CallWide(<<lo, hi>>)

\* log10_u32 called on every x within Window of an anchor.
CallLog10U32Near ==
    /\ calls = 0
    /\ \E a \in WideAnchors : \E d \in (0 - Window) .. Window :
          IsU32(OffsetW(a, d)) /\ CallWide(OffsetW(a, d))

Next ==
    \/ CallLog10Floor
    \/ CallLog10U32Low
    \/ CallLog10U32Block
    \/ CallLog10U32Near

Spec == Init /\ [][Next]_vars

\* ---------------------------------------------------------------- properties

\* The last call was log10_floor and it returned.
Returned16 == fn = "log10_floor" /\ pc = "returned"

\* The last call was log10_u32 and it returned.
ReturnedW == fn = "log10_u32" /\ pc = "returned"

\* floor(log2(w)) of a u32 w >= 1 in limbs.
HighBitW(w) == IF w[2] > 0 THEN 16 + HighBit(w[2]) ELSE HighBit(w[1])

\* C1: for every u16 x >= 1, log10_floor(x) returns floor(log10(x)), the number
\* of decimal digits of x (by repeated division by ten) minus one.
C1_Log10FloorExact ==
    (fn = "log10_floor" /\ x >= 1) =>
        (pc = "returned" /\ ret = Digits(x) - 1)

C1_Witness == Returned16 /\ x = 12345 /\ ret = 4

\* C2 as stated: log10_u32(0) returns 0 and has no failure path.
C2_WideZeroReturnsZero ==
    (fn = "log10_u32" /\ x = <<0, 0>>) =>
        (pc = "returned" /\ ret = <<0, 0>>)

\* C2 as amended: log10_u32(0) never returns.  leading_zeros(0) = 32, so the
\* index 31 - 32 underflows: a panic at the subtraction where overflow checks
\* are compiled in, and otherwise a wrapped index that fails the bounds check
\* of TABLE.
C2_WideZeroPanics ==
    (fn = "log10_u32" /\ x = <<0, 0>>) =>
        /\ pc = "panicked"
        /\ locals.lz = 32
        /\ overflow_checks => locals.at = "subtract"
        /\ ~overflow_checks =>
              (locals.at = "index" /\ ~index_in_bounds(TABLE, locals.index))

C2_Witness ==
    fn = "log10_u32" /\ x = <<0, 0>> /\ pc = "panicked" /\ ~overflow_checks

\* C3: for every u32 x >= 1, log10_u32(x) = (x + TABLE[floor(log2(x))]) >> 32
\* returns floor(log10(x)) exactly.
C3_PackedExact ==
    (fn = "log10_u32" /\ x # <<0, 0>>) =>
        /\ pc = "returned"
        /\ locals.index = <<HighBitW(x), 0, 0, 0>>
        /\ ret = <<FloorLog10W(x), 0>>

C3_Witness == ReturnedW /\ x = Pow10W(9) /\ ret = <<9, 0>>

\* C4 as stated: log10_floor(0) panics and never returns a value.
C4_ZeroPanics ==
    (fn = "log10_floor" /\ x = 0) => pc = "panicked"

\* C5: on the overlap 1 <= x <= 65535 the two routines return the same value:
\* a returned log10_u32(x as u32) is log10_floor(x) widened to u32, and a
\* returned log10_floor(x) widened to u32 is what log10_u32(x as u32) returns.
C5_Agree ==
    /\ (fn = "log10_u32" /\ x[2] = 0 /\ x[1] >= 1) =>
          /\ pc = "returned"
          /\ \A r \in log10_floor(x[1], overflow_checks) :
                r.pc = "returned" /\ ret = <<r.ret, 0>>
    /\ (fn = "log10_floor" /\ x >= 1) =>
          /\ pc = "returned"
          /\ \A r \in log10_u32(<<x, 0>>, overflow_checks) :
                r.pc = "returned" /\ r.ret = <<ret, 0>>

C5_Witness == ReturnedW /\ x = <<U16_MAX, 0>> /\ ret = <<4, 0>>

\* C6: log10_floor is monotonically non-decreasing: a call on x1 >= 1 followed
\* by a call on x2 >= x1 returns no smaller a value.
C6_Monotone ==
    [][(Returned16 /\ Returned16' /\ 1 <= x /\ x <= x') => ret <= ret']_vars

C6_Witness ==
    Returned16 /\ calls = 2 /\ x = Pow(2, 14) /\ ret = 4

\* C7: log10_floor(10^k - 1) = k - 1 and log10_floor(10^k) = k for k in 1..4,
\* log10_floor(1) = 0 and log10_floor(65535) = 4.
C7_Boundaries ==
    fn = "log10_floor" =>
        /\ \A k \in 1 .. 4 :
              /\ x = Pow(10, k) - 1 => (pc = "returned" /\ ret = k - 1)
              /\ x = Pow(10, k) => (pc = "returned" /\ ret = k)
        /\ x = 1 => (pc = "returned" /\ ret = 0)
        /\ x = U16_MAX => (pc = "returned" /\ ret = 4)

C7_Witness ==
    Returned16 /\ x = 10000 /\ locals.log10x_guess = 3 /\ ret = 4

\* C8: for every u16 x >= 1 the guess LOG10S_FOR_LOG2S[floor(log2(x))] is
\* floor(log10(x)) or floor(log10(x)) - 1, so the result is the guess or the
\* guess plus one.
C8_GuessWithinOne ==
    (Returned16 /\ x >= 1) =>
        /\ locals.log2x = HighBit(x)
        /\ locals.log10x_guess \in {FloorLog10(x), FloorLog10(x) - 1}
        /\ ret \in {locals.log10x_guess, locals.log10x_guess + 1}

C8_Witness ==
    Returned16 /\ x = 100 /\ locals.log10x_guess = 1 /\ ret = 2

\* C9: for every u16 x >= 1 both unchecked accesses of log10_floor are in
\* range: log2x is in 0..15, below the 16 entries of LOG10S_FOR_LOG2S, and the
\* guess is in 0..4, below the 5 entries of LIMITS.
C9_IndicesInRange ==
    (fn = "log10_floor" /\ x >= 1) =>
        /\ pc = "returned"
        /\ locals.log2x \in 0 .. 15
        /\ locals.log2x < Len(LOG10S_FOR_LOG2S)
        /\ locals.log10x_guess \in 0 .. 4
        /\ locals.log10x_guess < Len(LIMITS)
        /\ ~out_of_range(LOG10S_FOR_LOG2S, locals.log2x)
        /\ ~out_of_range(LIMITS, locals.log10x_guess)

C9_Witness ==
    Returned16 /\ locals.log2x = 15 /\ locals.log10x_guess = 4 /\ locals.limit = U16_MAX

\* The entries of LOG10S_FOR_LOG2S: 16 of them, entry k the largest d with
\* 10^d <= 2^k, non-decreasing, the first one 0.
GuessTableEntries ==
    /\ Len(LOG10S_FOR_LOG2S) = 16
    /\ LOG10S_FOR_LOG2S[1] = 0
    /\ \A k \in 0 .. 15 :
          LET d == LOG10S_FOR_LOG2S[k + 1]
          IN  /\ d = FloorLog10(Pow(2, k))
              /\ Pow(10, d) <= Pow(2, k)
              /\ Pow(2, k) < Pow(10, d + 1)
              /\ k > 0 => LOG10S_FOR_LOG2S[k] <= d

\* C10: LOG10S_FOR_LOG2S[k] = floor(log10(2^k)), the largest d with
\* 10^d <= 2^k, for every k in 0..15; the table is non-decreasing and starts
\* at 0; and the guess a call reads at index log2x is floor(log10(2^log2x)).
C10_GuessTable ==
    /\ GuessTableEntries
    /\ (Returned16 /\ x >= 1) =>
          locals.log10x_guess = FloorLog10(Pow(2, locals.log2x))

C10_Witness ==
    Returned16 /\ locals.log2x = 13 /\ locals.log10x_guess = 3

====
